---- MODULE Spec2Model ----
(***************************************************************************)
(* Model of the chatbot demos: the RAG graph of chatbot/src/rag-chatbot.js *)
(* (driven by rag-cli.js or by its own runExample), the keyword-gated RAG  *)
(* graph of unnamed/part_000 (driven by its runExample), and the plain     *)
(* chatbot graph of chatbot/src/cli.js.                                    *)
(*                                                                         *)
(* Text is a sequence of characters (one-character strings; a CJK          *)
(* character is written as its pinyin with a tone digit so that distinct   *)
(* characters stay distinct).  The graph framework is modelled by what the *)
(* source relies on: the messages channel merges by id and appends, every  *)
(* other channel keeps its last written value, and the checkpointer keeps  *)
(* the channel values per thread_id after the input and after every node.  *)
(***************************************************************************)
EXTENDS Integers, Sequences, FiniteSets, TLC

(***************************************************************************)
(* Bounds of the model.                                                    *)
(***************************************************************************)
MaxTurns == 2      \* input lines submitted as turns in one CLI run
MaxSessions == 2   \* session identifiers drawn by a CLI run (uuidv4 calls)
MaxCallers == 2    \* concurrent callers of the index initialisation

(***************************************************************************)
(* String operations of the source, on character sequences.                *)
(***************************************************************************)
\* The letters that occur in upper case in the texts of this model.
UpperChars == <<"A", "C", "E", "G", "L", "N", "R", "Y">>
LowerChars == <<"a", "c", "e", "g", "l", "n", "r", "y">>

LowerChar(c) ==
  IF \E i \in 1..Len(UpperChars) : UpperChars[i] = c
    THEN LowerChars[CHOOSE i \in 1..Len(UpperChars) : UpperChars[i] = c]
    ELSE c

toLowerCase(s) == [i \in 1..Len(s) |-> LowerChar(s[i])]

includes(s, k) ==
  \E i \in 0..(Len(s) - Len(k)) : SubSeq(s, i + 1, i + Len(k)) = k

startsWith(s, p) == Len(s) >= Len(p) /\ SubSeq(s, 1, Len(p)) = p

\* input.split(' ')[0]
splitFirst(s) ==
  IF \E i \in 1..Len(s) : s[i] = " "
    THEN SubSeq(s, 1, (CHOOSE i \in 1..Len(s) :
                         s[i] = " " /\ \A j \in 1..(i - 1) : s[j] # " ") - 1)
    ELSE s

\* input.substring(n)
substring(s, n) == SubSeq(s, n + 1, Len(s))

RECURSIVE trimStart(_)
trimStart(s) == IF s # <<>> /\ s[1] = " " THEN trimStart(Tail(s)) ELSE s

RECURSIVE trimEnd(_)
trimEnd(s) ==
  IF s # <<>> /\ s[Len(s)] = " " THEN trimEnd(SubSeq(s, 1, Len(s) - 1)) ELSE s

trim(s) == trimEnd(trimStart(s))


(***************************************************************************)
(* Texts of the programs.                                                  *)
(***************************************************************************)
\* knowledgeQueryKeywords: langchain, langgraph, jian3suo3, zeng1qiang2, rag,
\* kuang4jia4, zhi1shi2, shen2me5shi4, ru2he2, wei4shen2me5, jie3shi4b,
\* shuo1ming2, jie4shao4
knowledgeQueryKeywords ==
  << <<"l", "a", "n", "g", "c", "h", "a", "i", "n">>,
     <<"l", "a", "n", "g", "g", "r", "a", "p", "h">>,
     <<"jian3", "suo3">>,
     <<"zeng1", "qiang2">>,
     <<"r", "a", "g">>,
     <<"kuang4", "jia4">>,
     <<"zhi1", "shi2">>,
     <<"shen2", "me5", "shi4">>,
     <<"ru2", "he2">>,
     <<"wei4", "shen2", "me5">>,
     <<"jie3", "shi4b">>,
     <<"shuo1", "ming2">>,
     <<"jie4", "shao4">> >>

\* the affirmative token of the gate's classification ("shi4", yes)
AffirmativeToken == <<"shi4">>

\* the language used when neither the state nor the environment names one
FallbackLanguage == <<"zhong1", "wen2">>

\* the four example messages of both runExample drivers of the RAG graphs
ExampleContents ==
  << <<"ni3", "hao3", "!", "jie4", "shao4", "yi1", "xia4", "zi4", "ji3", ".">>,
     <<"L", "a", "n", "g", "C", "h", "a", "i", "n", "shi4", "shen2", "me5", "?">>,
     <<"shen2", "me5", "shi4", "jian3", "suo3", "zeng1", "qiang2", "sheng1",
       "cheng2", "?">>,
     <<"xie4", "xie4", "ni3", "de5", "jie3", "shi4b", ",", "wo3", "ming2",
       "bai2", "le5", "!">> >>

\* useRAG of the examples of part_000
ExampleUseRAG == <<FALSE, TRUE, TRUE, FALSE>>

\* the sample documents of initializeVectorStore, named by their position;
\* each is shorter than chunkSize, so the splitter yields one chunk per document
NumDocuments == 6
documents == [i \in 1..NumDocuments |-> i]

\* maxTokens of the trimmer
maxTokens == 4000

\* "~" stands for a run of text of LongRunTokens tokens
LongRunTokens == 2500

(***************************************************************************)
(* What the outside world supplies.                                        *)
(***************************************************************************)
\* lines typed at the CLI prompt
Lines ==
  { <<"h", "i">>,
    <<"R", "A", "G", "?">>,
    <<"/", "n", "e", "w">>,
    <<"/", "L", "A", "N", "G", " ", "E", "N", " ">>,
    <<"/", "l", "a", "n", "g">>,
    <<"/", "i", "n", "f", "o">>,
    <<"/", "h", "e", "l", "p">>,
    <<"/", "l", "a", "n", "g", "E", "N">>,
    <<"/", "e", "x", "i", "t">>,
    <<"/", "q", "u", "i", "t">> }

\* answers of the language model to the gate's yes/no question
Answers ==
  { <<"shi4">>, <<"fou3">> }

\* the text of a generated reply
ReplyText == <<"o", "k">>

\* process.env.DEFAULT_LANGUAGE; the runs explored here leave it unset (the
\* empty text)
EnvLanguages == { <<>> }

\* the programs of the repository that run a conversation graph
Programs == {"rag_cli", "rag_example", "part_000", "cli"}

IsRag(p) == p \in {"rag_cli", "rag_example", "part_000"}
IsCli(p) == p \in {"rag_cli", "cli"}

(***************************************************************************)
(* The graph state (RAGBotAnnotation / ChatBotAnnotation) and its channels. *)
(* An unset language and unset retrieval_documents are the empty sequence: *)
(* the source reads both only through tests that treat undefined and empty *)
(* alike (state.language || ..., docs && docs.length > 0).                 *)
(***************************************************************************)
EmptyState ==
  [messages |-> <<>>, language |-> <<>>, retrieval_documents |-> <<>>,
   route |-> "none"]

\* a message as the caller writes it: no id yet (id 0)
PlainMessage(r, c) == [id |-> 0, role |-> r, content |-> c]

RECURSIVE CountNoId(_)
CountNoId(ms) ==
  IF ms = <<>> THEN 0
  ELSE (IF ms[1].id = 0 THEN 1 ELSE 0) + CountNoId(Tail(ms))

\* the reducer gives every message without an id a fresh one
RECURSIVE AssignIds(_, _)
AssignIds(ms, nid) ==
  IF ms = <<>> THEN <<>>
  ELSE IF ms[1].id = 0
    THEN <<[ms[1] EXCEPT !.id = nid]>> \o AssignIds(Tail(ms), nid + 1)
    ELSE <<ms[1]>> \o AssignIds(Tail(ms), nid)

\* one message merged into the list: replaced in place when its id is there,
\* appended otherwise
MergeOne(merged, m) ==
  IF \E i \in 1..Len(merged) : merged[i].id = m.id
    THEN [i \in 1..Len(merged) |-> IF merged[i].id = m.id THEN m ELSE merged[i]]
    ELSE Append(merged, m)

RECURSIVE MergeAll(_, _)
MergeAll(merged, ms) ==
  IF ms = <<>> THEN merged ELSE MergeAll(MergeOne(merged, ms[1]), Tail(ms))

\* a plausible slip: the messages channel declared like the other channels,
\* so that a write replaces the list
messagesLastValue(left, right, nid) == AssignIds(right, nid)

\* the reducer of the messages channel (MessagesAnnotation.spec)
messagesStateReducer(left, right, nid) == MergeAll(left, AssignIds(right, nid))

\* a plausible slip: one checkpoint for every thread
threadShared(sid) == 1

\* the checkpoint key of a session: config.configurable.thread_id
thread(sid) == sid

\* a plausible slip: the graph compiled without its checkpointer
checkpointNone(mem, t) == EmptyState

\* the channel values an invocation starts from: the thread's checkpoint
checkpointLoad(mem, t) == mem[t]

\* the channels after an input is written to them.  An input is
\* [messages, hasLanguage, language, hasDocs, retrieval_documents]; a key the
\* input does not carry leaves its channel as the checkpoint has it.
applyInput(state, input, nid) ==
  [messages |-> messagesStateReducer(state.messages, input.messages, nid),
   language |-> IF input.hasLanguage THEN input.language ELSE state.language,
   retrieval_documents |->
     IF input.hasDocs THEN input.retrieval_documents
     ELSE state.retrieval_documents,
   route |-> state.route]

\* a plausible slip: the filter on the role is left out
userMessagesUnfiltered(state) == state.messages

\* state.messages.filter((m) => m.role === 'user')
userMessages(state) == SelectSeq(state.messages, LAMBDA m : m.role = "user")

\* a plausible slip: the first user message is taken
firstUserMessage(state) == userMessages(state)[1].content

lastUserMessage(state) ==
  userMessages(state)[Len(userMessages(state))].content

(***************************************************************************)
(* The trimmer: trimMessages with strategy 'last', includeSystem,          *)
(* allowPartial false, startOn 'human'.                                    *)
(***************************************************************************)
RECURSIVE getNumTokens(_)
getNumTokens(text) ==
  IF text = <<>> THEN 0
  ELSE (IF text[1] = "~" THEN LongRunTokens ELSE 1) + getNumTokens(Tail(text))

RECURSIVE tokenCounter(_)
tokenCounter(ms) ==
  IF ms = <<>> THEN 0
  ELSE getNumTokens(ms[1].content) + tokenCounter(Tail(ms))

Reverse(s) == [i \in 1..Len(s) |-> s[Len(s) + 1 - i]]

\* the longest prefix within maxTokens, then cut back to end on a `endOn` role
firstMaxTokens(ms, endOn) ==
  LET fits == {n \in 0..Len(ms) : tokenCounter(SubSeq(ms, 1, n)) <= maxTokens}
      idx0 == CHOOSE n \in fits : \A k \in fits : k <= n
      ends == {n \in 0..idx0 : n = 0 \/ ms[n].role = endOn}
      idx == CHOOSE n \in ends : \A k \in ends : k <= n
  IN SubSeq(ms, 1, idx)

trimmer(ms) ==
  IF ms # <<>> /\ ms[1].role = "system"
    THEN LET r == firstMaxTokens(<<ms[1]>> \o Reverse(Tail(ms)), "user")
         IN IF r = <<>> THEN <<>> ELSE <<r[1]>> \o Reverse(Tail(r))
    ELSE Reverse(firstMaxTokens(Reverse(ms), "user"))

(***************************************************************************)
(* The retrieval gate.                                                     *)
(***************************************************************************)
containsKeyword(text) ==
  \E i \in 1..Len(knowledgeQueryKeywords) :
    includes(toLowerCase(text), toLowerCase(knowledgeQueryKeywords[i]))

\* only the gate of part_000 has the keyword list
hasKeywordGate(p) == p = "part_000"

\* whether shouldRetrieve reaches its llm.invoke
gateAsksModel(p, state) ==
  /\ userMessages(state) # <<>>
  /\ ~(hasKeywordGate(p) /\ containsKeyword(lastUserMessage(state)))

\* a plausible slip: the answer compared for equality with the token
affirmativeExact(answer) == toLowerCase(answer) = AffirmativeToken

\* response.content.toLowerCase().includes('shi4')
affirmative(answer) == includes(toLowerCase(answer), AffirmativeToken)

\* shouldRetrieve, given the answer of the model when it is asked
shouldRetrieve(p, state, answer) ==
  IF userMessages(state) = <<>> THEN FALSE
  ELSE IF hasKeywordGate(p) /\ containsKeyword(lastUserMessage(state)) THEN TRUE
  ELSE \/ affirmative(answer)
       \/ (hasKeywordGate(p) /\ containsKeyword(lastUserMessage(state)))

routeBasedOnRetrieval(p, state, answer) ==
  IF shouldRetrieve(p, state, answer) THEN "retrieve" ELSE "generate"

\* a plausible slip: the edge after the router always goes to retrieve
conditionalEdgeAlways(state) == "retrieve"

\* addConditionalEdges('router', (state) => state.route)
conditionalEdge(state) == state.route

(***************************************************************************)
(* The vector index and the retriever.  The similarity of a query and a    *)
(* chunk is computed by the embedding service; here it is a fixed score.   *)
(***************************************************************************)
UnsetStore == [set |-> FALSE, vectors |-> <<>>]

\* MemoryVectorStore.fromDocuments: a new store holding the chunks
fromDocuments(docs) == [set |-> TRUE, vectors |-> docs]

similarity(query, doc) == (doc * (Len(query) + 1)) % 7

RECURSIVE insertByScore(_, _, _)
insertByScore(sorted, query, d) ==
  IF sorted = <<>> THEN <<d>>
  ELSE IF similarity(query, d) > similarity(query, sorted[1])
    THEN <<d>> \o sorted
    ELSE <<sorted[1]>> \o insertByScore(Tail(sorted), query, d)

RECURSIVE ranked(_, _)
ranked(vectors, query) ==
  IF vectors = <<>> THEN <<>>
  ELSE insertByScore(ranked(SubSeq(vectors, 1, Len(vectors) - 1), query),
                     query, vectors[Len(vectors)])

Min(a, b) == IF a < b THEN a ELSE b

\* k of asRetriever: 3 in part_000, the retriever's default in rag-chatbot.js
retrieverK(p) == IF p = "part_000" THEN 3 ELSE 4

\* what retriever.invoke may return: the k best chunks, or none of them
retrieverResults(store, query, k) ==
  {SubSeq(ranked(store.vectors, query), 1, n) :
     n \in {0, Min(k, Len(store.vectors))}}

(***************************************************************************)
(* The response composer.                                                  *)
(***************************************************************************)
\* a plausible slip: the grounded instructions chosen by the route
composerBranchByRoute(state) ==
  IF state.route = "retrieve" THEN "grounded" ELSE "plain"

composerBranch(state) ==
  IF state.retrieval_documents # <<>> THEN "grounded" ELSE "plain"

\* a plausible slip: the environment's default is skipped
promptLanguageNoEnv(state, envLanguage) ==
  IF state.language # <<>> THEN state.language ELSE FallbackLanguage

\* state.language || process.env.DEFAULT_LANGUAGE || fallback
promptLanguage(state, envLanguage) ==
  IF state.language # <<>> THEN state.language
  ELSE IF envLanguage # <<>> THEN envLanguage
  ELSE FallbackLanguage

Last(s) == s[Len(s)]

(***************************************************************************)
(* State.                                                                  *)
(***************************************************************************)
VARIABLES
  prog,              \* the program that runs
  env,               \* process.env.DEFAULT_LANGUAGE
  dpc,               \* where the driver is: init, preretrieve, run, loop, exit
  prompts,           \* rl.question callbacks waiting for a line
  sessionId,         \* the driver's sessionId
  uuids,             \* uuidv4 calls made so far; the n-th call returns n
  currentLanguage,   \* the CLI's currentLanguage
  lastRetrievedDocs, \* the RAG CLI's lastRetrievedDocs
  messageHistory,    \* messageHistory of part_000's runExample
  exIdx,             \* the example the runExample loop is at
  preDocs,           \* langchainInfo and ragInfo of part_000's runExample
  memory,            \* the MemorySaver: thread_id -> channel values
  vectorStore,       \* the module-level vectorStore
  tpc,               \* the node an invocation is at: idle, router, retrieve,
                     \* generate, model, end, failed
  tsid,              \* thread_id of that invocation
  nextId,            \* the next fresh message id
  turns,             \* turns submitted so far
  obs,               \* what the invocation in flight did (history variable)
  lastTurn,          \* per thread, how its latest settled turn went (history)
  owner,             \* owner[id]: the session a message id was created under
  inflight,          \* per thread, invocations started and not yet settled
  callers,           \* concurrent callers of the index initialisation
  fn                 \* a function of the source applied on its own: its
                     \* name, its argument and, once applied, its result

vars ==
  <<prog, env, dpc, prompts, sessionId, uuids, currentLanguage,
    lastRetrievedDocs, messageHistory, exIdx, preDocs, memory, vectorStore,
    tpc, tsid, nextId, turns, obs, lastTurn, owner, inflight, callers, fn>>

driverVars ==
  <<sessionId, uuids, currentLanguage, lastRetrievedDocs, messageHistory,
    exIdx, preDocs>>

Threads == 1..MaxSessions

NoObs ==
  [trace |-> <<>>, pre |-> EmptyState, user |-> PlainMessage("none", <<>>),
   prev |-> <<>>, asked |-> FALSE, answer |-> <<>>, branch |-> "none",
   found |-> <<>>, docs |-> <<>>, history |-> <<>>, prompt |-> <<>>,
   language |-> <<>>, llmCalls |-> 0, errors |-> 0]

NoTurn == [ok |-> FALSE, pair |-> <<>>]

IdleCallers ==
  [c \in 1..MaxCallers |->
     [kind |-> "none", pc |-> "off", local |-> <<>>, queried |-> FALSE,
      against |-> UnsetStore]]

\* no function is applied on its own
NoFn == [kind |-> "none", applied |-> FALSE, arg |-> <<>>, out |-> <<>>]

\* the driver's currentLanguage: process.env.DEFAULT_LANGUAGE || fallback
initialLanguage(envLanguage) ==
  IF envLanguage # <<>> THEN envLanguage ELSE FallbackLanguage

Init ==
  /\ prog \in Programs
  /\ env \in EnvLanguages
  \* cli.js asks its first question while the module loads; the others
  \* first await initializeVectorStore
  /\ dpc = IF prog = "cli" THEN "run" ELSE "init"
  /\ prompts = IF prog = "cli" THEN 1 ELSE 0
  /\ sessionId = 1
  /\ uuids = 1
  /\ currentLanguage = initialLanguage(env)
  /\ lastRetrievedDocs = <<>>
  /\ messageHistory = <<>>
  /\ exIdx = 1
  /\ preDocs = [langchainInfo |-> <<>>, ragInfo |-> <<>>]
  /\ memory = [t \in Threads |-> EmptyState]
  /\ vectorStore = UnsetStore
  /\ tpc = "idle"
  /\ tsid = 1
  /\ nextId = 1
  /\ turns = 0
  /\ obs = NoObs
  /\ lastTurn = [t \in Threads |-> NoTurn]
  /\ owner = <<>>
  /\ inflight = [t \in Threads |-> 0]
  /\ callers = IdleCallers
  /\ fn = NoFn

(***************************************************************************)
(* The prompt of the CLIs.                                                 *)
(***************************************************************************)
\* a plausible slip: the handler stays registered after a line (rl.on('line'))
questionStays(p) == p

\* rl.question hands one line to its callback, once
questionAnswered(p) == p - 1

\* a plausible slip: a branch of the handler asks and the common tail asks again
askQuestionTwice(p) == p + 2

\* askQuestion: rl.question(..., processUserInput)
askQuestion(p) == p + 1

\* input.split(' ')[0].toLowerCase()
command(line) == toLowerCase(splitFirst(line))

AtPrompt(line) ==
  /\ IsCli(prog)
  /\ dpc = "run"
  /\ prompts > 0
  /\ line \in Lines

\* a plausible slip: only a line that is a command word and nothing else
\* counts as a command
IsCommandWord(line) == startsWith(line, <<"/">>) /\ splitFirst(line) = line

\* input.startsWith('/')
IsCommand(line) == startsWith(line, <<"/">>)

graphVars == <<memory, vectorStore, tpc, tsid, nextId, turns, obs, lastTurn,
               owner, inflight>>

(***************************************************************************)
(* Start-up: initializeVectorStore awaited by initialize() and runExample. *)
(***************************************************************************)
initializeOk ==
  /\ dpc = "init"
  /\ vectorStore' = fromDocuments(documents)
  /\ dpc' = CASE prog = "rag_cli" -> "run"
              [] prog = "rag_example" -> "loop"
              [] OTHER -> "preretrieve"
  /\ prompts' = IF prog = "rag_cli" THEN askQuestion(prompts) ELSE prompts
  /\ UNCHANGED <<fn, prog, env, driverVars, memory, tpc, tsid, nextId, turns, obs,
                 lastTurn, owner, inflight, callers>>

\* initialisation throws: process.exit(1), or runExample rejects
initializeFail ==
  /\ dpc = "init"
  /\ dpc' = "exit"
  /\ UNCHANGED <<fn, prog, env, prompts, driverVars, graphVars, callers>>

\* the two queries runExample of part_000 makes before its loop
PreQueries ==
  << <<"L", "a", "n", "g", "C", "h", "a", "i", "n", "shi4", "shen2", "me5",
       "?", "ta1", "you3", "shen2", "me5", "yong4", "tu2", "?">>,
     <<"shen2", "me5", "shi4", "jian3", "suo3", "zeng1", "qiang2", "sheng1",
       "cheng2", "ji4", "shu4", "?", "R", "A", "G", "you3", "shen2", "me5",
       "you1", "shi4c", "?">> >>

preRetrieveOk ==
  /\ dpc = "preretrieve"
  /\ \E a \in retrieverResults(vectorStore, PreQueries[1], 3),
        b \in retrieverResults(vectorStore, PreQueries[2], 3) :
       preDocs' = [langchainInfo |-> a, ragInfo |-> b]
  /\ dpc' = "loop"
  /\ UNCHANGED <<fn, prog, env, prompts, sessionId, uuids, currentLanguage,
                 lastRetrievedDocs, messageHistory, exIdx, graphVars, callers>>

preRetrieveFail ==
  /\ dpc = "preretrieve"
  /\ dpc' = "exit"
  /\ UNCHANGED <<fn, prog, env, prompts, driverVars, graphVars, callers>>

(***************************************************************************)
(* invoke(input, config): the checkpoint of the thread is loaded, the      *)
(* input is written to the channels and checkpointed, and the first node   *)
(* is scheduled.                                                           *)
(***************************************************************************)
Invoke(input, sid) ==
  LET t == thread(sid)
      n == CountNoId(input.messages)
      st == applyInput(checkpointLoad(memory, t), input, nextId)
  IN /\ memory' = [memory EXCEPT ![t] = st]
     /\ nextId' = nextId + n
     /\ owner' = owner \o [i \in 1..n |-> sid]
     /\ tsid' = sid
     /\ tpc' = IF IsRag(prog) THEN "router" ELSE "model"
     /\ turns' = turns + 1
     /\ inflight' = [inflight EXCEPT ![t] = @ + 1]
     /\ obs' = [NoObs EXCEPT !.trace = <<"start">>,
                             !.pre = memory[t],
                             !.user = Last(st.messages),
                             !.prev = IF lastTurn[t].ok THEN lastTurn[t].pair
                                      ELSE <<>>]
     /\ UNCHANGED <<vectorStore, lastTurn>>

(***************************************************************************)
(* processUserInput of rag-cli.js and cli.js.                              *)
(***************************************************************************)
CmdExit(line) ==
  /\ AtPrompt(line)
  /\ IsCommand(line)
  /\ command(line) \in {<<"/", "e", "x", "i", "t">>, <<"/", "q", "u", "i", "t">>}
  /\ dpc' = "exit"
  /\ prompts' = questionAnswered(prompts)
  /\ UNCHANGED <<fn, prog, env, driverVars, graphVars, callers>>

CmdLang(line) ==
  /\ AtPrompt(line)
  /\ IsCommand(line)
  /\ command(line) = <<"/", "l", "a", "n", "g">>
  /\ LET newLang == trim(substring(line, 6))
     IN currentLanguage' = IF newLang # <<>> THEN newLang ELSE currentLanguage
  /\ prompts' = askQuestion(questionAnswered(prompts))
  /\ UNCHANGED <<fn, prog, env, dpc, sessionId, uuids, lastRetrievedDocs,
                 messageHistory, exIdx, preDocs, graphVars, callers>>

CmdNew(line) ==
  /\ AtPrompt(line)
  /\ IsCommand(line)
  /\ command(line) = <<"/", "n", "e", "w">>
  /\ uuids < MaxSessions
  /\ uuids' = uuids + 1
  /\ sessionId' = uuids + 1
  /\ lastRetrievedDocs' = <<>>
  /\ prompts' = askQuestion(questionAnswered(prompts))
  /\ UNCHANGED <<fn, prog, env, dpc, currentLanguage, messageHistory, exIdx,
                 preDocs, graphVars, callers>>

\* only rag-cli.js has /info
CmdInfo(line) ==
  /\ AtPrompt(line)
  /\ IsCommand(line)
  /\ prog = "rag_cli"
  /\ command(line) = <<"/", "i", "n", "f", "o">>
  /\ prompts' = askQuestion(questionAnswered(prompts))
  /\ UNCHANGED <<fn, prog, env, dpc, driverVars, graphVars, callers>>

CmdHelp(line) ==
  /\ AtPrompt(line)
  /\ IsCommand(line)
  /\ command(line) = <<"/", "h", "e", "l", "p">>
  /\ prompts' = askQuestion(questionAnswered(prompts))
  /\ UNCHANGED <<fn, prog, env, dpc, driverVars, graphVars, callers>>

KnownCommands(p) ==
  { <<"/", "e", "x", "i", "t">>, <<"/", "q", "u", "i", "t">>,
    <<"/", "l", "a", "n", "g">>, <<"/", "n", "e", "w">>,
    <<"/", "h", "e", "l", "p">> }
  \cup (IF p = "rag_cli" THEN {<<"/", "i", "n", "f", "o">>} ELSE {})

CmdUnknown(line) ==
  /\ AtPrompt(line)
  /\ IsCommand(line)
  /\ command(line) \notin KnownCommands(prog)
  /\ prompts' = askQuestion(questionAnswered(prompts))
  /\ UNCHANGED <<fn, prog, env, dpc, driverVars, graphVars, callers>>

\* a line that is no command: the turn is submitted
SubmitTurn(line) ==
  /\ AtPrompt(line)
  /\ ~IsCommand(line)
  /\ turns < MaxTurns
  /\ prompts' = questionAnswered(prompts)
  /\ Invoke([messages |-> <<PlainMessage("user", line)>>,
             hasLanguage |-> TRUE, language |-> currentLanguage,
             hasDocs |-> FALSE, retrieval_documents |-> <<>>], sessionId)
  /\ UNCHANGED <<fn, prog, env, dpc, driverVars, callers>>

(***************************************************************************)
(* The runExample loops of rag-chatbot.js and part_000.                    *)
(***************************************************************************)
ExampleLanguage == <<"zhong1", "wen2">>

\* the documents example i of part_000 carries
exampleDocs(i) ==
  CASE i = 2 -> preDocs.langchainInfo
    [] i = 3 -> preDocs.ragInfo
    [] OTHER -> <<>>

SubmitExample ==
  /\ dpc = "loop"
  /\ tpc = "idle"
  /\ exIdx <= Len(ExampleContents)
  /\ LET userMessage == PlainMessage("user", ExampleContents[exIdx])
     IN IF prog = "part_000"
          THEN /\ messageHistory' = Append(messageHistory, userMessage)
               /\ Invoke([messages |-> messageHistory',
                          hasLanguage |-> TRUE, language |-> ExampleLanguage,
                          hasDocs |-> ExampleUseRAG[exIdx]
                                      /\ exampleDocs(exIdx) # <<>>,
                          retrieval_documents |-> exampleDocs(exIdx)],
                         sessionId)
          ELSE /\ messageHistory' = messageHistory
               /\ Invoke([messages |-> <<userMessage>>,
                          hasLanguage |-> exIdx = 1,
                          language |-> ExampleLanguage,
                          hasDocs |-> FALSE, retrieval_documents |-> <<>>],
                         sessionId)
  /\ UNCHANGED <<fn, prog, env, dpc, prompts, sessionId, uuids, currentLanguage,
                 lastRetrievedDocs, exIdx, preDocs, callers>>

(***************************************************************************)
(* The nodes of the graphs.  Each node reads the channels of its thread    *)
(* and its writes are checkpointed when it returns; a node that throws     *)
(* writes nothing and ends the invocation.                                 *)
(***************************************************************************)
Entered(stage) == [obs EXCEPT !.trace = Append(@, stage)]

\* router: routeBasedOnRetrieval
routerOk ==
  /\ tpc = "router"
  /\ LET t == thread(tsid)
         asks == gateAsksModel(prog, memory[t])
     IN \E answer \in (IF asks THEN Answers ELSE {<<>>}) :
          LET st == [memory[t] EXCEPT
                       !.route = routeBasedOnRetrieval(prog, memory[t], answer)]
          IN /\ memory' = [memory EXCEPT ![t] = st]
             /\ tpc' = conditionalEdge(st)
             /\ obs' = [Entered("routing") EXCEPT
                          !.asked = asks, !.answer = answer,
                          !.llmCalls = @ + (IF asks THEN 1 ELSE 0)]
  /\ UNCHANGED <<fn, prog, env, dpc, prompts, driverVars, vectorStore, tsid,
                 nextId, turns, lastTurn, owner, inflight, callers>>

\* the gate's llm.invoke throws
routerFail ==
  /\ tpc = "router"
  /\ gateAsksModel(prog, memory[thread(tsid)])
  /\ tpc' = "failed"
  /\ obs' = [Entered("routing") EXCEPT !.asked = TRUE, !.llmCalls = @ + 1]
  /\ UNCHANGED <<fn, prog, env, dpc, prompts, driverVars, memory, vectorStore,
                 tsid, nextId, turns, lastTurn, owner, inflight, callers>>

\* a plausible slip: an empty result is not written, the old passages stay
retrievedKeepOld(state, found) ==
  IF found # <<>> THEN [state EXCEPT !.retrieval_documents = found] ELSE state

\* the write of the retrieve node: { retrieval_documents: documentContents }
retrieved(state, found) == [state EXCEPT !.retrieval_documents = found]

\* retrieve: retrieveDocuments
retrieveOk ==
  /\ tpc = "retrieve"
  /\ LET t == thread(tsid)
         st == memory[t]
         store == IF vectorStore.set THEN vectorStore
                  ELSE fromDocuments(documents)
     IN /\ vectorStore' = store
        /\ \E found \in (IF userMessages(st) = <<>> THEN {<<>>}
                         ELSE retrieverResults(store, lastUserMessage(st),
                                               retrieverK(prog))) :
             /\ memory' = [memory EXCEPT ![t] = retrieved(st, found)]
             /\ obs' = [Entered("retrieving") EXCEPT !.found = found]
  /\ tpc' = "generate"
  /\ UNCHANGED <<fn, prog, env, dpc, prompts, driverVars, tsid, nextId, turns,
                 lastTurn, owner, inflight, callers>>

\* initializeVectorStore throws (the index stays unset), or the retriever does
retrieveFail ==
  /\ tpc = "retrieve"
  /\ userMessages(memory[thread(tsid)]) # <<>>
  /\ vectorStore' \in {vectorStore,
                       IF vectorStore.set THEN vectorStore
                       ELSE fromDocuments(documents)}
  /\ tpc' = "failed"
  /\ obs' = Entered("retrieving")
  /\ UNCHANGED <<fn, prog, env, dpc, prompts, driverVars, memory, tsid, nextId,
                 turns, lastTurn, owner, inflight, callers>>

\* a plausible slip: a failed call is tried once more
composerCallsRetry(calls) == calls + 2

\* the model calls made so far, after the composer's llm.invoke(prompt)
composerCalls(calls) == calls + 1

\* what the composer is handed and builds, before its llm.invoke
Composing(st) ==
  [Entered("composing") EXCEPT
     !.history = st.messages,
     !.prompt = trimmer(st.messages),
     !.docs = st.retrieval_documents,
     !.branch = composerBranch(st),
     !.language = promptLanguage(st, env),
     !.llmCalls = composerCalls(@)]

\* a plausible slip: the edge out of generate leads back to the router
edgeBackToRouter == "router"

\* addEdge('generate', END), addEdge('model', END)
edgeFromGenerate == "end"

\* the write of generate and of model: { messages: [response] }
Respond ==
  LET t == thread(tsid)
      st == memory[t]
      response == PlainMessage("assistant", ReplyText)
  IN /\ memory' = [memory EXCEPT
                     ![t].messages =
                        messagesStateReducer(st.messages, <<response>>, nextId)]
     /\ nextId' = nextId + 1
     /\ owner' = Append(owner, tsid)
     /\ obs' = Composing(st)
     /\ tpc' = edgeFromGenerate

\* generate: generateResponse
generateOk ==
  /\ tpc = "generate"
  /\ Respond
  /\ UNCHANGED <<fn, prog, env, dpc, prompts, driverVars, vectorStore, tsid, turns,
                 lastTurn, inflight, callers>>

generateFail ==
  /\ tpc = "generate"
  /\ obs' = Composing(memory[thread(tsid)])
  /\ tpc' = "failed"
  /\ UNCHANGED <<fn, prog, env, dpc, prompts, driverVars, memory, vectorStore,
                 tsid, nextId, turns, lastTurn, owner, inflight, callers>>

\* model: callModel of cli.js
callModelOk ==
  /\ tpc = "model"
  /\ Respond
  /\ UNCHANGED <<fn, prog, env, dpc, prompts, driverVars, vectorStore, tsid, turns,
                 lastTurn, inflight, callers>>

callModelFail ==
  /\ tpc = "model"
  /\ obs' = Composing(memory[thread(tsid)])
  /\ tpc' = "failed"
  /\ UNCHANGED <<fn, prog, env, dpc, prompts, driverVars, memory, vectorStore,
                 tsid, nextId, turns, lastTurn, owner, inflight, callers>>

(***************************************************************************)
(* The invocation settles: invoke returns the channel values, or throws.   *)
(***************************************************************************)
\* a plausible slip: the catch prints the error and rethrows it to a handler
\* that prints it again
reportedTwice(errors) == errors + 2

\* console.error in the catch of the driver: one report
reported(errors) == errors + 1

Settled(ok) ==
  LET t == thread(tsid)
  IN /\ tpc' = "idle"
     /\ inflight' = [inflight EXCEPT ![t] = @ - 1]
     /\ lastTurn' = [lastTurn EXCEPT ![t] =
                       [ok |-> ok,
                        pair |-> IF ok
                                   THEN <<obs.user, Last(memory[t].messages)>>
                                   ELSE <<>>]]
     \* of the history variable only the stages outlive the invocation
     /\ obs' = [NoObs EXCEPT
                  !.trace = IF ok THEN Append(obs.trace, "done") ELSE obs.trace,
                  !.errors = IF ok THEN obs.errors ELSE reported(obs.errors)]

\* processUserInput after its await: the passages are kept when there are
\* some, the reply is printed, the next question is asked
cliDone ==
  /\ tpc = "end"
  /\ IsCli(prog)
  /\ Settled(TRUE)
  /\ LET output == memory[thread(tsid)]
     IN lastRetrievedDocs' =
          IF prog = "rag_cli" /\ output.retrieval_documents # <<>>
            THEN output.retrieval_documents
            ELSE lastRetrievedDocs
  /\ prompts' = askQuestion(prompts)
  /\ UNCHANGED <<fn, prog, env, dpc, sessionId, uuids, currentLanguage,
                 messageHistory, exIdx, preDocs, memory, vectorStore, tsid,
                 nextId, turns, owner, callers>>

\* the catch of processUserInput: the error is printed, the next question asked
cliCatch ==
  /\ tpc = "failed"
  /\ IsCli(prog)
  /\ Settled(FALSE)
  /\ prompts' = askQuestion(prompts)
  /\ UNCHANGED <<fn, prog, env, dpc, driverVars, memory, vectorStore, tsid, nextId,
                 turns, owner, callers>>

\* runExample after its await: part_000 pushes the reply to messageHistory
exampleDone ==
  /\ tpc = "end"
  /\ ~IsCli(prog)
  /\ Settled(TRUE)
  /\ messageHistory' =
       IF prog = "part_000"
         THEN Append(messageHistory, Last(memory[thread(tsid)].messages))
         ELSE messageHistory
  /\ exIdx' = exIdx + 1
  /\ dpc' = IF exIdx = Len(ExampleContents) THEN "exit" ELSE dpc
  /\ UNCHANGED <<fn, prog, env, prompts, sessionId, uuids, currentLanguage,
                 lastRetrievedDocs, preDocs, memory, vectorStore, tsid, nextId,
                 turns, owner, callers>>

\* runExample rejects: runExample().catch(console.error)
exampleCatch ==
  /\ tpc = "failed"
  /\ ~IsCli(prog)
  /\ Settled(FALSE)
  /\ dpc' = "exit"
  /\ UNCHANGED <<fn, prog, env, prompts, driverVars, memory, vectorStore, tsid,
                 nextId, turns, owner, callers>>

Next ==
  \/ initializeOk
  \/ initializeFail
  \/ preRetrieveOk
  \/ preRetrieveFail
  \/ \E line \in Lines : CmdExit(line)
  \/ \E line \in Lines : CmdLang(line)
  \/ \E line \in Lines : CmdNew(line)
  \/ \E line \in Lines : CmdInfo(line)
  \/ \E line \in Lines : CmdHelp(line)
  \/ \E line \in Lines : CmdUnknown(line)
  \/ \E line \in Lines : SubmitTurn(line)
  \/ SubmitExample
  \/ routerOk
  \/ routerFail
  \/ retrieveOk
  \/ retrieveFail
  \/ generateOk
  \/ generateFail
  \/ callModelOk
  \/ callModelFail
  \/ cliDone
  \/ cliCatch
  \/ exampleDone
  \/ exampleCatch

Spec == Init /\ [][Next]_vars

(***************************************************************************)
(* Concurrent first access to the index.  Each caller is an explicit       *)
(* initializeVectorStore() call or a retrieve step; the steps of a caller  *)
(* are the stretches of initializeVectorStore and retrieveDocuments        *)
(* between two awaits, and the steps of different callers interleave.      *)
(***************************************************************************)
Callers == 1..MaxCallers

\* a plausible slip: the chunks are added to the shared store as they are
\* embedded (vectorStore.addDocuments) instead of to a store of the call
sharedAfterEmbed(global, chunks) ==
  [set |-> TRUE, vectors |-> global.vectors \o chunks]

\* the module-level vectorStore after a call has embedded its chunks:
\* fromDocuments filled a store of its own, the shared one is as it was
storeAfterEmbed(global, chunks) == global

ConcUnchanged ==
  UNCHANGED <<fn, prog, env, dpc, prompts, driverVars, memory, tpc, tsid, nextId,
              turns, obs, lastTurn, owner, inflight>>

\* an explicit call of initializeVectorStore starts: createDocuments is awaited
callInitialize(c) ==
  /\ callers[c].pc = "off"
  /\ callers' = [callers EXCEPT ![c] = [@ EXCEPT !.kind = "init",
                                                  !.pc = "splitting"]]
  /\ UNCHANGED vectorStore
  /\ ConcUnchanged

\* a retrieve step starts: if (!vectorStore) await initializeVectorStore()
callRetrieve(c) ==
  /\ callers[c].pc = "off"
  /\ callers' = [callers EXCEPT ![c] =
                   [@ EXCEPT !.kind = "retrieve",
                             !.pc = IF vectorStore.set THEN "query"
                                    ELSE "splitting"]]
  /\ UNCHANGED vectorStore
  /\ ConcUnchanged

\* createDocuments resolves: fromDocuments is awaited
splitDone(c) ==
  /\ callers[c].pc = "splitting"
  /\ callers' = [callers EXCEPT ![c] = [@ EXCEPT !.pc = "embedding"]]
  /\ UNCHANGED vectorStore
  /\ ConcUnchanged

\* the chunks are embedded and added to the store fromDocuments made
embedDone(c) ==
  /\ callers[c].pc = "embedding"
  /\ callers' = [callers EXCEPT ![c] =
                   [@ EXCEPT !.pc = "assigning",
                             !.local = fromDocuments(documents).vectors]]
  /\ vectorStore' = storeAfterEmbed(vectorStore, documents)
  /\ ConcUnchanged

\* vectorStore = await MemoryVectorStore.fromDocuments(...)
assignStore(c) ==
  /\ callers[c].pc = "assigning"
  /\ vectorStore' = [set |-> TRUE, vectors |-> callers[c].local]
  /\ callers' = [callers EXCEPT ![c] =
                   [@ EXCEPT !.pc = IF callers[c].kind = "retrieve"
                                      THEN "query" ELSE "done"]]
  /\ ConcUnchanged

\* a plausible slip: the store is created and assigned before it is filled,
\* so a failed initialisation leaves an empty index behind
storeLeftEmpty(global) ==
  IF global.set THEN global ELSE [set |-> TRUE, vectors |-> <<>>]

\* the module-level vectorStore after initializeVectorStore threw: the
\* assignment was not reached
storeAfterThrow(global) == global

\* the splitter or the embedding service throws: the call rethrows
initThrows(c) ==
  /\ callers[c].pc \in {"splitting", "embedding"}
  /\ callers' = [callers EXCEPT ![c] = [@ EXCEPT !.pc = "failed"]]
  /\ vectorStore' = storeAfterThrow(vectorStore)
  /\ ConcUnchanged

\* vectorStore.asRetriever() and retriever.invoke of the retrieve step
queryStore(c) ==
  /\ callers[c].pc = "query"
  /\ callers' = [callers EXCEPT ![c] =
                   [@ EXCEPT !.pc = "done", !.queried = TRUE,
                             !.against = vectorStore]]
  /\ UNCHANGED vectorStore
  /\ ConcUnchanged

ConcInit ==
  /\ Init
  /\ prog = "rag_cli"
  /\ dpc = "init"

ConcNext ==
  \E c \in Callers :
    \/ callInitialize(c)
    \/ callRetrieve(c)
    \/ splitDone(c)
    \/ embedDone(c)
    \/ assignStore(c)
    \/ initThrows(c)
    \/ queryStore(c)

SpecConc == ConcInit /\ [][ConcNext]_vars

(***************************************************************************)
(* Properties.                                                             *)
(***************************************************************************)
IsPrefix(a, b) == Len(a) <= Len(b) /\ SubSeq(b, 1, Len(a)) = a

Range(f) == {f[i] : i \in DOMAIN f}

\* the channels of the thread of the invocation in flight (or the latest one)
Channels == memory[thread(tsid)]

\* C1: in a turn whose latest user message contains a trigger term, the
\* route decided by the gate is retrieve, whatever the model answers.
C1_TriggerTermRoutesToRetrieve ==
  (/\ IsRag(prog)
   /\ tpc \in {"retrieve", "generate", "end"}
   /\ containsKeyword(lastUserMessage(Channels)))
  => Channels.route = "retrieve"

\* C2: in a turn routed to generate the retrieval passages of the state, and
\* those the composer is handed, are empty and the composer takes the plain
\* branch.
C2_SkippedRetrievalHasNoPassages ==
  (/\ IsRag(prog)
   /\ tpc \in {"generate", "end"}
   /\ Channels.route = "generate")
  => /\ Channels.retrieval_documents = <<>>
     /\ (tpc = "end" => obs.docs = <<>> /\ obs.branch = "plain")

\* C3: after a turn failed, the state persisted under its session is the
\* state persisted before the turn.
C3_FailedTurnLeavesStateUnchanged ==
  tpc = "failed" => Channels = obs.pre

\* C4: the Turn sequence persisted under a session only grows at its end:
\* what was persisted before a step is a prefix of what is persisted after.
C4_TurnsOnlyAppended ==
  [][\A t \in Threads : IsPrefix(memory[t].messages, memory'[t].messages)]_vars

\* a turn that ended on top of an earlier history
C4_Witness ==
  tpc = "end" /\ Len(obs.pre.messages) >= 2

\* C5: at most one turn is in flight per session; while a turn is in flight
\* no question is pending, so no second turn can start.
C5_OneTurnInFlight ==
  /\ \A t \in Threads : inflight[t] <= 1
  /\ (tpc # "idle" => prompts = 0 /\ inflight[thread(tsid)] = 1)

\* a second turn of a session in flight after its first one ended
C5_Witness ==
  tpc \notin {"idle", "failed"} /\ obs.prev # <<>> /\ inflight[thread(tsid)] = 1

\* C6 (under SpecConc): with initialisations running concurrently, the shared
\* index is never visible partly filled or with a chunk twice, no query reads
\* anything but the complete index, and once every caller has finished and
\* one initialisation succeeded the index is set.
C6_OneCompleteIndex ==
  /\ vectorStore.set => vectorStore.vectors = documents
  /\ \A c \in Callers :
       callers[c].queried =>
         callers[c].against.set /\ callers[c].against.vectors = documents
  /\ ((\A c \in Callers : callers[c].pc \in {"done", "failed"})
      /\ (\E c \in Callers : callers[c].pc = "done"))
     => vectorStore.set

\* two retrieve steps that both found the index unset, both initialised it
\* and both queried
C6_Witness ==
  \A c \in {1, 2} :
    /\ callers[c].kind = "retrieve"
    /\ callers[c].local # <<>>
    /\ callers[c].pc = "done"
    /\ callers[c].queried

StagesRetrieve == <<"start", "routing", "retrieving", "composing", "done">>
StagesGenerate == <<"start", "routing", "composing", "done">>

\* C7: the stages of a turn of a RAG graph are a prefix of start, routing,
\* retrieving, composing, done or of start, routing, composing, done; the
\* node in turn is the one after the stages passed; and retrieving is
\* entered exactly when the route this turn decided is retrieve.
C7_StageOrder ==
  IsRag(prog) =>
    /\ IsPrefix(obs.trace, StagesRetrieve) \/ IsPrefix(obs.trace, StagesGenerate)
    /\ tpc = "router" => obs.trace = <<"start">>
    /\ tpc = "retrieve" => obs.trace = <<"start", "routing">>
    /\ tpc = "generate" =>
         obs.trace \in {<<"start", "routing">>,
                        <<"start", "routing", "retrieving">>}
    /\ tpc = "end" => Last(obs.trace) = "composing"
    /\ (tpc \in {"retrieve", "generate"} \/ Len(obs.trace) >= 3) =>
         ((tpc = "retrieve" \/ "retrieving" \in Range(obs.trace))
            <=> Channels.route = "retrieve")

\* a settled turn that went through every stage, retrieval included
C7_Witness ==
  IsRag(prog) /\ tpc = "idle" /\ obs.trace = StagesRetrieve

\* C8: the composer takes the grounded branch exactly when the passages it
\* is handed are not empty; after a retrieve step that found nothing it
\* takes the plain branch.
C8_GroundedIffPassages ==
  obs.branch # "none" =>
    /\ obs.branch = "grounded" <=> obs.docs # <<>>
    /\ ("retrieving" \in Range(obs.trace) /\ obs.found = <<>>) =>
         obs.branch = "plain"

\* the retriever found nothing in a session that held passages of an earlier
\* turn, and the composer ran
C8_Witness ==
  /\ obs.branch = "plain"
  /\ "retrieving" \in Range(obs.trace)
  /\ obs.found = <<>>
  /\ obs.pre.retrieval_documents # <<>>

\* C9: when the turn before on the same session succeeded, the history the
\* composer is handed holds that turn's user Turn, then its assistant Turn,
\* then the user Turn of this turn.
C9_HistoryRetained ==
  (obs.branch # "none" /\ obs.prev # <<>>) =>
    \E i, j, k \in 1..Len(obs.history) :
      /\ i < j
      /\ j < k
      /\ obs.history[i] = obs.prev[1]
      /\ obs.history[j] = obs.prev[2]
      /\ obs.history[k] = obs.user

\* the second of two successful turns of a session
C9_Witness ==
  tpc = "end" /\ obs.prev # <<>>

\* C10: a step changes the state stored under no session but the one of the
\* turn in flight, and every Turn of the history handed to the composer was
\* created under the session of the turn.
C10_SessionsIsolated ==
  /\ [](\A i \in 1..Len(obs.history) : owner[obs.history[i].id] = tsid)
  /\ [][\A b \in Threads :
          b # tsid' => memory'[thread(b)] = memory[thread(b)]]_vars

\* a turn of a second session composed while the first session holds Turns
C10_Witness ==
  /\ tsid = 2
  /\ tpc = "end"
  /\ memory[thread(1)].messages # <<>>
  /\ obs.history # <<>>

\* C11: a failed turn is reported once, by the step that leaves the failed
\* state; that step changes nothing persisted and, in the CLIs, asks the next
\* question; the Turns persisted before a turn are a prefix of those left
\* by its failure and of the history handed to the composer of a later turn.
C11_FailureReportedHistoryKept ==
  /\ [](tpc = "failed" =>
         obs.errors = 0 /\ IsPrefix(obs.pre.messages, Channels.messages))
  /\ [](obs.branch # "none" => IsPrefix(obs.pre.messages, obs.history))
  /\ [][tpc = "failed" =>
          /\ tpc' = "idle"
          /\ obs'.errors = 1
          /\ memory' = memory
          /\ (IsCli(prog) => prompts' = 1 /\ dpc' = "run")]_vars

\* the turn after a failed turn of the same session was composed and ended
C11_Witness ==
  /\ IsCli(prog)
  /\ tpc = "end"
  /\ obs.pre.messages # <<>>
  /\ ~lastTurn[thread(tsid)].ok
  /\ Len(obs.history) = Len(obs.pre.messages) + 1

\* C12: after the retrieve step of a turn, the passages stored for the turn
\* are at most 3 and are the best-ranked chunks for the turn's user message,
\* in rank order, in every RAG program.
C12_AtMostThreePassages ==
  (/\ IsRag(prog)
   /\ tpc \in {"generate", "end"}
   /\ "retrieving" \in Range(obs.trace))
  => /\ Len(Channels.retrieval_documents) <= 3
     /\ IsPrefix(Channels.retrieval_documents,
                 ranked(vectorStore.vectors, obs.user.content))

(***************************************************************************)
(* The trimmer applied on its own to the Turn sequences of up to MaxLen    *)
(* Turns; a system Turn, when there is one, is the first of the sequence.  *)
(***************************************************************************)
MaxLen == 3

\* contents of 2 tokens, of LongRunTokens tokens and of twice as many
TrimContents == { <<"h", "i">>, <<"~">>, <<"~", "~">> }

TrimMessages ==
  {PlainMessage(r, c) : r \in {"system", "user", "assistant"},
                         c \in TrimContents}

TrimInputs ==
  {ms \in UNION {[1..n -> TrimMessages] : n \in 0..MaxLen} :
     \A i \in 2..Len(ms) : ms[i].role # "system"}

\* every variable but fn
progVars ==
  <<prog, env, dpc, prompts, sessionId, uuids, currentLanguage,
    lastRetrievedDocs, messageHistory, exIdx, preDocs, memory, vectorStore,
    tpc, tsid, nextId, turns, obs, lastTurn, owner, inflight, callers>>

\* where a function is applied on its own: no program step was taken
FnInit ==
  /\ Init
  /\ prog = "rag_cli"

\* state.messages is handed to the trimmer
trimmerInput ==
  /\ FnInit
  /\ \E ms \in TrimInputs :
       fn' = [kind |-> "trimmer", applied |-> FALSE, arg |-> ms, out |-> <<>>]
  /\ UNCHANGED progVars

\* trimmer.invoke(state.messages)
trimmerInvoke ==
  /\ fn.kind = "trimmer"
  /\ ~fn.applied
  /\ fn' = [fn EXCEPT !.applied = TRUE, !.out = trimmer(fn.arg)]
  /\ UNCHANGED progVars

TrimNext == trimmerInput \/ trimmerInvoke

SpecTrim == FnInit /\ [][TrimNext]_vars

IsSuffix(a, b) ==
  Len(a) <= Len(b) /\ SubSeq(b, Len(b) - Len(a) + 1, Len(b)) = a

HasSystem(ms) == ms # <<>> /\ ms[1].role = "system"

\* the Turns of a sequence after its system Turn
Body(ms) == IF HasSystem(ms) THEN Tail(ms) ELSE ms

C14_OversizedLastTurnKept ==
  (/\ fn.applied
   /\ fn.arg # <<>>
   /\ Last(fn.arg).role = "user"
   /\ getNumTokens(Last(fn.arg).content) > maxTokens)
  => (fn.out # <<>> /\ Last(fn.out) = Last(fn.arg))

(***************************************************************************)
(* The composer's choice of language and of instructions, applied on its   *)
(* own: to the channels a checkpoint and an input leave, under each value  *)
(* of DEFAULT_LANGUAGE.  An input that carries a language carries a text   *)
(* that is not empty, as every driver's input does.                        *)
(***************************************************************************)
ComposeLanguages == { <<"E", "N">>, <<"F", "R">> }

ComposeDocs == { <<>>, <<1>>, <<2, 4, 6>> }

ComposeInputs ==
  [checkpoint : ComposeLanguages \cup {<<>>},
   hasLanguage : BOOLEAN,
   language : ComposeLanguages,
   envLanguage : ComposeLanguages \cup {<<>>},
   docs : ComposeDocs]

\* the channels the composer reads: the checkpoint with the input written
composerState(a) ==
  applyInput([EmptyState EXCEPT !.language = a.checkpoint,
                                !.retrieval_documents = a.docs],
             [messages |-> <<PlainMessage("user", <<"h", "i">>)>>,
              hasLanguage |-> a.hasLanguage, language |-> a.language,
              hasDocs |-> FALSE, retrieval_documents |-> <<>>], 1)

composerInput ==
  /\ FnInit
  /\ \E a \in ComposeInputs :
       fn' = [kind |-> "composer", applied |-> FALSE, arg |-> a, out |-> <<>>]
  /\ UNCHANGED progVars

\* generateResponse up to its prompt
composerInvoke ==
  /\ fn.kind = "composer"
  /\ ~fn.applied
  /\ fn' = [fn EXCEPT
              !.applied = TRUE,
              !.out = [language |->
                         promptLanguage(composerState(fn.arg),
                                        fn.arg.envLanguage),
                       branch |-> composerBranch(composerState(fn.arg))]]
  /\ UNCHANGED progVars

ComposeNext == composerInput \/ composerInvoke

SpecCompose == FnInit /\ [][ComposeNext]_vars

\* C15: in either branch the language of the prompt is the language of this
\* turn's input when it carries one, else the language an earlier turn left
\* in the session, else DEFAULT_LANGUAGE, else the fallback; it is never
\* unset.
C15_LanguageOrDefault ==
  fn.applied =>
    /\ fn.out.language # <<>>
    /\ fn.out.language =
         (IF fn.arg.hasLanguage THEN fn.arg.language
          ELSE IF fn.arg.checkpoint # <<>> THEN fn.arg.checkpoint
          ELSE IF fn.arg.envLanguage # <<>> THEN fn.arg.envLanguage
          ELSE FallbackLanguage)

\* the grounded branch composed with no language in the session: the
\* environment's default is used
C15_Witness ==
  /\ fn.applied
  /\ fn.out.branch = "grounded"
  /\ ~fn.arg.hasLanguage
  /\ fn.arg.checkpoint = <<>>
  /\ fn.arg.envLanguage # <<>>
  /\ fn.out.language = fn.arg.envLanguage

\* C16: in a turn whose latest user message contains a trigger term the gate
\* does not ask the model, and the turn ends with one model call, the
\* composer's.
C16_TriggerTermSkipsModel ==
  (/\ IsRag(prog)
   /\ tpc \in {"retrieve", "generate", "end"}
   /\ containsKeyword(lastUserMessage(Channels)))
  => /\ ~obs.asked
     /\ (tpc = "end" => obs.llmCalls = 1)

(***************************************************************************)
(* The gate applied on its own: shouldRetrieve / routeBasedOnRetrieval of  *)
(* rag-chatbot.js and of part_000 on a history and an answer of the model. *)
(***************************************************************************)
GatePrograms == {"rag_cli", "part_000"}

GateHistories ==
  LET u(c) == PlainMessage("user", c)
      a == PlainMessage("assistant", ReplyText)
      hi == <<"h", "i">>
      rag == <<"R", "A", "G", "?">>
  IN { <<>>, <<a>>, <<u(hi)>>, <<u(rag)>>, <<u(hi), a>>,
       <<u(rag), a, u(hi)>>, <<u(hi), a, u(rag)>> }

\* answers: yes, no, "not so" (bu2 shi4), yes with more words, unclear, none
GateAnswers ==
  { <<"shi4">>, <<"fou3">>, <<"bu2", "shi4">>, <<"shi4", "de5", ".">>,
    <<"?">>, <<>> }

gateState(ms) == [EmptyState EXCEPT !.messages = ms]

gateInput ==
  /\ FnInit
  /\ \E p \in GatePrograms, ms \in GateHistories, answer \in GateAnswers :
       fn' = [kind |-> "gate", applied |-> FALSE,
              arg |-> [prog |-> p, messages |-> ms, answer |-> answer],
              out |-> <<>>]
  /\ UNCHANGED progVars

\* routeBasedOnRetrieval(state)
gateInvoke ==
  /\ fn.kind = "gate"
  /\ ~fn.applied
  /\ fn' = [fn EXCEPT
              !.applied = TRUE,
              !.out = [route |->
                         routeBasedOnRetrieval(fn.arg.prog,
                                               gateState(fn.arg.messages),
                                               fn.arg.answer),
                       asked |-> gateAsksModel(fn.arg.prog,
                                               gateState(fn.arg.messages))]]
  /\ UNCHANGED progVars

GateNext == gateInput \/ gateInvoke

SpecGate == FnInit /\ [][GateNext]_vars

\* the user-role Turns of the gate's argument, by their role
GateUserTurns == SelectSeq(fn.arg.messages, LAMBDA m : m.role = "user")

\* C17: when the latest user message holds no trigger term, the route is
\* retrieve exactly when the model's answer contains the affirmative token.
C17_AffirmativeByContainment ==
  (/\ fn.applied
   /\ GateUserTurns # <<>>
   /\ ~containsKeyword(Last(GateUserTurns).content))
  => /\ fn.out.asked
     /\ fn.out.route \in {"retrieve", "generate"}
     /\ fn.out.route = "retrieve"
          <=> \E i \in 1..Len(fn.arg.answer) : fn.arg.answer[i] = "shi4"

\* an affirmative answer with more words routed to retrieve
C17_Witness ==
  /\ fn.applied
  /\ GateUserTurns # <<>>
  /\ ~containsKeyword(Last(GateUserTurns).content)
  /\ fn.arg.answer = <<"shi4", "de5", ".">>
  /\ fn.out.route = "retrieve"

\* C18: the gate answers generate without asking the model exactly when the
\* history holds no user-role Turn; otherwise its decision is the decision
\* on the last user-role Turn alone.
C18_NoUserTurnRoutesToGenerate ==
  fn.applied =>
    /\ (fn.out.route = "generate" /\ ~fn.out.asked) <=> GateUserTurns = <<>>
    /\ GateUserTurns # <<>> =>
         /\ fn.out.asked \/ containsKeyword(Last(GateUserTurns).content)
         /\ fn.out.route =
              routeBasedOnRetrieval(fn.arg.prog,
                                    gateState(<<Last(GateUserTurns)>>),
                                    fn.arg.answer)

\* a history that holds only an assistant Turn
C18_Witness ==
  /\ fn.applied
  /\ fn.arg.messages # <<>>
  /\ GateUserTurns = <<>>
  /\ fn.out.route = "generate"
  /\ ~fn.out.asked

\* C19 (under SpecConc): a retrieve step is at its query, or has queried,
\* only with the index set; a failed initialisation leaves the index
\* reference as it was and its retrieve step never queries; and a retrieve
\* step that starts initialises exactly when it finds the index unset.
C19_NoQueryOnUnsetIndex ==
  /\ [](\A c \in Callers :
          /\ callers[c].pc = "query" => vectorStore.set
          /\ callers[c].queried => callers[c].against.set
          /\ callers[c].pc = "failed" => ~callers[c].queried)
  /\ [][\A c \in Callers :
          /\ (callers[c].pc # "failed" /\ callers'[c].pc = "failed")
               => vectorStore' = vectorStore
          /\ (callers[c].pc = "off" /\ callers'[c].kind = "retrieve")
               => (callers'[c].pc = "splitting" <=> ~vectorStore.set)]_vars

\* a retrieve step whose initialisation failed left the index unset, and
\* another retrieve step initialised it and queried
C19_Witness ==
  /\ callers[1].kind = "retrieve"
  /\ callers[1].pc = "failed"
  /\ callers[2].kind = "retrieve"
  /\ callers[2].local # <<>>
  /\ callers[2].queried
  /\ callers[2].against = fromDocuments(documents)

\* C20: the composer's step makes exactly one model call, whether it ends
\* the turn or fails it; after it the invocation only settles, so a failed
\* call is not repeated and the turn fails with the gate's call, if any,
\* and one call of the composer.
C20_ComposerCallsModelOnce ==
  /\ [][(tpc \in {"generate", "model"}) =>
          /\ obs'.llmCalls = obs.llmCalls + 1
          /\ tpc' \in {"end", "failed"}]_vars
  /\ [][(tpc \in {"end", "failed"}) => tpc' = "idle"]_vars
  /\ [](tpc \in {"end", "failed"}
          /\ Last(<<"none">> \o obs.trace) = "composing" =>
            obs.llmCalls = (IF obs.asked THEN 2 ELSE 1))

\* the model call of the grounded branch failed
C20_Witness ==
  /\ tpc = "failed"
  /\ Last(<<"none">> \o obs.trace) = "composing"
  /\ obs.branch = "grounded"
  /\ obs.llmCalls = 2

\* C21: a step of the retrieve node leaves the Turns, the language and the
\* route of every session as they were, and the passages it stores are the
\* best-ranked chunks for the content of the latest user-role Turn.
C21_RetrieveChangesOnlyPassages ==
  [][tpc = "retrieve" =>
       /\ \A t \in Threads :
            /\ memory'[t].messages = memory[t].messages
            /\ memory'[t].language = memory[t].language
            /\ memory'[t].route = memory[t].route
            /\ t # thread(tsid) => memory'[t] = memory[t]
       /\ tpc' = "generate" =>
            LET users == SelectSeq(Channels.messages,
                                   LAMBDA m : m.role = "user")
            IN /\ Channels'.retrieval_documents = obs'.found
               /\ IsPrefix(obs'.found,
                           ranked(vectorStore'.vectors,
                                  users[Len(users)].content))]_vars

\* passages were retrieved in a session whose earlier user Turn has another
\* content than the latest one
C21_Witness ==
  /\ tpc = "generate"
  /\ "retrieving" \in Range(obs.trace)
  /\ obs.found # <<>>
  /\ Len(userMessages(Channels)) = 2
  /\ userMessages(Channels)[1].content # lastUserMessage(Channels)

\* C22: when a turn has ended, the Turns persisted for its session are
\* those persisted before the turn, then the submitted user message, then
\* the assistant reply: exactly two Turns more.
C22_TurnAddsUserAndReply ==
  tpc = "end" =>
    /\ Len(Channels.messages) = Len(obs.pre.messages) + 2
    /\ IsPrefix(obs.pre.messages, Channels.messages)
    /\ Channels.messages[Len(Channels.messages) - 1] = obs.user
    /\ obs.user.role = "user"
    /\ Last(Channels.messages).role = "assistant"

(***************************************************************************)
(* Progress of a turn.  Every await of a turn in flight is on a            *)
(* collaborator that returns or throws, and the driver's own await         *)
(* continues once the invocation has settled: a turn does not stay at one  *)
(* node for ever.                                                          *)
(***************************************************************************)
Nodes == {"idle", "router", "retrieve", "generate", "model", "end", "failed"}

awaitSettles == tpc # "idle" /\ tpc' \in Nodes \ {tpc}

SpecLive == Init /\ [][Next]_vars /\ WF_tpc(awaitSettles)

NoStageTwice(trace) ==
  \A i, j \in 1..Len(trace) : trace[i] = trace[j] => i = j

\* C23 (under SpecLive): a turn in flight eventually settles; it settles
\* either in done with an assistant Turn as the last of its session and
\* nothing reported, or without done and with one report; no stage is
\* entered twice in a turn, and a turn starts with the stage start alone.
C23_TurnTerminates ==
  /\ (tpc # "idle") ~> (tpc = "idle")
  /\ [](NoStageTwice(obs.trace))
  /\ [][(tpc = "idle" /\ tpc' # "idle") => obs'.trace = <<"start">>]_vars
  /\ [][(tpc # "idle" /\ tpc' = "idle") =>
          \/ /\ Last(obs'.trace) = "done"
             /\ obs'.errors = 0
             /\ Last(Channels.messages).role = "assistant"
          \/ /\ "done" \notin Range(obs'.trace)
             /\ obs'.errors = 1]_vars

\* a second turn was entered at start after the first one had ended
C23_Witness ==
  /\ obs.trace = <<"start">>
  /\ tpc # "idle"
  /\ lastTurn[thread(tsid)].ok

(***************************************************************************)
(* The commands of the CLIs.                                               *)
(***************************************************************************)
\* the whole handler of one input line
processUserInput(line) ==
  \/ CmdExit(line)
  \/ CmdLang(line)
  \/ CmdNew(line)
  \/ CmdInfo(line)
  \/ CmdHelp(line)
  \/ CmdUnknown(line)
  \/ SubmitTurn(line)

\* C24: the handler of a line that begins with "/" submits no turn and
\* leaves the graph's state alone; /new replaces the session identifier,
\* empties the kept passages in the RAG CLI and keeps the language;
\* "/LANG EN " sets the language to EN and keeps the session; /lang alone,
\* /help, /info and unknown commands change nothing of the driver's state.
C24_CommandsKeepToTheirState ==
  [][\A line \in Lines :
       (processUserInput(line) /\ Head(line) = "/") =>
         /\ UNCHANGED graphVars
         /\ UNCHANGED <<messageHistory, exIdx, preDocs>>
         /\ CASE line = <<"/", "n", "e", "w">> ->
                  /\ sessionId' # sessionId
                  /\ prog = "rag_cli" => lastRetrievedDocs' = <<>>
                  /\ currentLanguage' = currentLanguage
              [] line = <<"/", "L", "A", "N", "G", " ", "E", "N", " ">> ->
                  /\ currentLanguage' = <<"E", "N">>
                  /\ UNCHANGED <<sessionId, uuids, lastRetrievedDocs>>
              [] line \in { <<"/", "l", "a", "n", "g">>,
                            <<"/", "i", "n", "f", "o">>,
                            <<"/", "h", "e", "l", "p">>,
                            <<"/", "l", "a", "n", "g", "E", "N">> } ->
                  UNCHANGED <<sessionId, uuids, currentLanguage,
                              lastRetrievedDocs>>
              [] OTHER -> dpc' = "exit"]_vars

\* /new was typed after a turn that retrieved passages and after the
\* language had been set
C24_Witness ==
  /\ prog = "rag_cli"
  /\ tpc = "idle"
  /\ sessionId = 2
  /\ memory[thread(1)].retrieval_documents # <<>>
  /\ lastRetrievedDocs = <<>>
  /\ currentLanguage = <<"E", "N">>

\* C25 (under SpecLive): a question is never pending twice; a CLI that runs
\* and has no turn in flight has exactly one question pending; a question is
\* asked only once the turn has settled; and a CLI left without a pending
\* question by a submitted line gets its next question.
C25_OnePromptPerLine ==
  /\ [](prompts <= 1)
  /\ []((IsCli(prog) /\ dpc = "run" /\ tpc = "idle") => prompts = 1)
  /\ [][prompts' > prompts => tpc' = "idle"]_vars
  /\ (IsCli(prog) /\ dpc = "run" /\ prompts = 0) ~> (prompts = 1)

\* the question asked after a failed turn
C25_Witness ==
  /\ IsCli(prog)
  /\ dpc = "run"
  /\ tpc = "idle"
  /\ prompts = 1
  /\ obs.errors = 1

\* C26: in the RAG CLI, once a turn has been handled, the passages /info
\* reports are the passages that turn retrieved, and they are the retrieval
\* passages kept in the state of the current session.
C26_InfoShowsLastRetrieval ==
  [][(prog = "rag_cli" /\ tpc = "end") =>
       /\ lastRetrievedDocs' = obs.found
       /\ lastRetrievedDocs' = memory'[thread(sessionId')].retrieval_documents]_vars

====
